---------------------------- MODULE Spec2Model ----------------------------
(***************************************************************************)
(* A model of LTX, the Linux Test Executor (src/ltx/ltx.c, the revision   *)
(* at lines 607-1420: the one with ltx_write_msg, signalfd and            *)
(* process_get_file_msg).                                                  *)
(*                                                                         *)
(* The program is single threaded.  Its steps are the iterations of       *)
(* event_loop: epoll_wait, one process_event per returned event, a drain, *)
(* the process_msgs pass (one step per message of the pass), a drain.     *)
(* The environment (scheduler, kernel pipes, children, clock) moves       *)
(* between the program's system calls.                                     *)
(*                                                                         *)
(* Bytes are the integers 0..255.  A uint64_t is four 16-bit limbs, most  *)
(* significant first, so that values above 2^31 stay exact.  A size_t     *)
(* that can wrap (the cursor's left) is kept modulo SizeMod.              *)
(***************************************************************************)
EXTENDS Integers, Sequences, FiniteSets, TLC

(***************************************************************************)
(* Bounds of the model.  BUFSIZ, LogChunk, LogGap and SizeMod are scaled  *)
(* stand-ins for <stdio.h>'s BUFSIZ (8192), the 1024-byte read chunk, the *)
(* 32-byte gap left for a Log header, and 2^64; SendfileMax and FileMax for *)
(* sendfile's count 0x7ffff000 and the size limit 0xffffffff.             *)
(***************************************************************************)
BUFSIZ == 40
LogChunk == 1
LogGap == 14
OutCap == 6
MaxChildOut == 2
PipeCap == 4
MaxSends == 3
SendfileMax == 4
FileMax == 6

SizeMod == 1048576

(***************************************************************************)
(* enum ltx_msg_types, enum ltx_kind, enum msgp_fmt, the child table size  *)
(***************************************************************************)
ltx_msg_ping == 0
ltx_msg_pong == 1
ltx_msg_env == 2
ltx_msg_exec == 3
ltx_msg_log == 4
ltx_msg_result == 5
ltx_msg_get_file == 6
ltx_msg_set_file == 7
ltx_msg_data == 8
\* ltx_msg_max two above ltx_msg_data
ltx_msg_max_wide == ltx_msg_data + 2

ltx_msg_max == 8

ltx_array == 9
ltx_number == 10
ltx_str == 11
ltx_bin == 12
ltx_nil == 13

msgp_fixarray0 == 144
msgp_fixstr0 == 160
msgp_fixstr31 == 191
msgp_nil == 192
msgp_bin8 == 196
msgp_bin32 == 198
msgp_uint8 == 204
msgp_uint16 == 205
msgp_uint32 == 206
msgp_uint64 == 207
msgp_str8 == 217
msgp_str16 == 218
msgp_str32 == 219
msgp_array16 == 220

\* a child table of 128 slots
NSlotsWide == ltx_msg_max * 16

NSlots == 127

(***************************************************************************)
(* Small helpers                                                           *)
(***************************************************************************)
Min(a, b) == IF a < b THEN a ELSE b

Max(a, b) == IF a < b THEN b ELSE a

\* ltx_min_sz returning the larger of the two
ltx_min_sz_max(a, b) == IF a < b THEN b ELSE a

ltx_min_sz(a, b) == IF a < b THEN a ELSE b

\* size_t subtraction, with wrap-around
SizeSub(a, b) == (a - b + SizeMod) % SizeMod

\* a uint64_t from a small natural number
U64(n) == <<0, 0, n \div 65536, n % 65536>>

U64Leq(a, b) ==
  \/ a = b
  \/ \E i \in 1..4 : a[i] < b[i] /\ \A j \in 1..(i - 1) : a[j] = b[j]

\* byte k of n, byte 0 the least significant: (uint8_t)(n >> 8k)
U64Byte(n, k) ==
  LET limb == n[4 - (k \div 2)]
  IN  IF k % 2 = 0 THEN limb % 256 ELSE limb \div 256

\* the low l bytes of n, least significant first
U64BytesLE(n, l) == [i \in 1..l |-> U64Byte(n, i - 1)]

\* the low l bytes of n, most significant first
U64Bytes(n, l) == [i \in 1..l |-> U64Byte(n, l - i)]

(***************************************************************************)
(* ltx_write_number: the MessagePack header of an array size, a number, a  *)
(* string size or a binary size, then the size's bytes, big-endian.       *)
(***************************************************************************)
ltx_write_number(kind, n) ==
  LET hi32  == n[1] # 0 \/ n[2] # 0          \* (~0ULL << 32) & n
      hi16  == n[3] # 0                      \* 0xffff0000 & n
      b8_15 == n[4] \div 256 # 0             \* 0xff00 & n
      b7    == (n[4] \div 128) % 2 = 1       \* 0x80 & n
      small == ~hi32 /\ ~hi16                \* n < 65536
      hl == CASE kind = ltx_array ->
                   IF ~small \/ n[4] > 15
                   THEN <<msgp_array16, 2>>
                   ELSE <<(msgp_fixarray0 + n[4]) % 256, 0>>
              [] kind = ltx_number ->
                   IF hi32 THEN <<msgp_uint64, 8>>
                   ELSE IF hi16 THEN <<msgp_uint32, 4>>
                   ELSE IF b8_15 THEN <<msgp_uint16, 2>>
                   ELSE IF b7 THEN <<msgp_uint8, 1>>
                   ELSE <<n[4] % 256, 0>>
              [] kind = ltx_str ->
                   IF hi16 THEN <<msgp_str32, 4>>
                   ELSE IF b8_15 THEN <<msgp_str16, 2>>
                   ELSE IF ~small \/ n[4] > 31 THEN <<msgp_str8, 1>>
                   ELSE <<(msgp_fixstr0 + n[4]) % 256, 0>>
              [] kind = ltx_bin ->
                   IF hi16 \/ b8_15 THEN <<msgp_bin32, 4>>
                   ELSE <<msgp_str8, 1>>
  IN  <<hl[1]>> \o U64Bytes(n, hl[2])

(***************************************************************************)
(* struct ltx_obj and the LTX_NUMBER, LTX_NIL, LTX_STR, LTX_BIN macros.    *)
(* hasdata is FALSE for a NULL data pointer.                               *)
(***************************************************************************)
LTX_NUMBER(n) == [kind |-> ltx_number, u64 |-> n, len |-> 0, data |-> <<>>, hasdata |-> FALSE]

LTX_NIL == [kind |-> ltx_nil, u64 |-> U64(0), len |-> 0, data |-> <<>>, hasdata |-> FALSE]

LTX_STR(l, d) == [kind |-> ltx_str, u64 |-> U64(0), len |-> l, data |-> d, hasdata |-> TRUE]

LTX_BIN(l) == [kind |-> ltx_bin, u64 |-> U64(0), len |-> l, data |-> <<>>, hasdata |-> FALSE]

ltx_write_obj(obj) ==
  CASE obj.kind = ltx_number -> ltx_write_number(ltx_number, obj.u64)
    [] obj.kind \in {ltx_str, ltx_bin} ->
         ltx_write_number(obj.kind, U64(obj.len))
           \o (IF obj.hasdata THEN obj.data ELSE <<>>)
    [] obj.kind = ltx_nil -> <<msgp_nil>>

RECURSIVE WriteObjs(_)
WriteObjs(objs) ==
  IF objs = <<>> THEN <<>>
  ELSE ltx_write_obj(Head(objs)) \o WriteObjs(Tail(objs))

ltx_write_msg(msg_type, objs) ==
  ltx_write_number(ltx_array, U64(1 + Len(objs))) \o <<msg_type>> \o WriteObjs(objs)


(***************************************************************************)
(* State                                                                   *)
(***************************************************************************)
VARIABLES
  pc,             \* where the parent is: "wait" (epoll_wait), "events", "msgs",
                  \* "out" (the out: label of process_msgs), "exited", "ub"
  exit_code,      \* the status passed to exit(), -1 while running
  stop,           \* event_loop's stop
  batch,          \* the epoll events of this iteration not yet processed
  in_buf,         \* struct ltx_buf in_buf: off, used, data[BUFSIZ]
  outer_cur,      \* process_msgs' outer_cur: ptr (an index into data), left
  out_buf,        \* the live bytes of out_buf (off is 0 between two drains)
  out_fd_blocked, \* static int out_fd_blocked
  childs,         \* childs[]: slot -> [fd, pid], the touched slots only
  child_pids,     \* child_pids[]: slot -> pid, the touched slots only
  sched_todo,     \* bytes the scheduler has still to write to stdin
  stdin_q,        \* bytes written to stdin and not yet read
  in_closed,      \* the scheduler has closed its end of stdin
  sends,          \* the number of writes the scheduler has made
  rx,             \* history: every byte read from stdin, in order
  out_free,       \* free space in the stdout pipe
  out_edge,       \* an edge-triggered EPOLLOUT notification is pending
  stdout,         \* every byte written to stdout, as <<origin, byte>>
  now,            \* the monotonic clock, an index into ClockVals
  pipes,          \* the pipes made by pipe2, by fd
  procs,          \* the forked children, by pid
  sigq,           \* the pending SIGCHLD siginfo: at most one
  qframes,        \* history: the frames appended to out_buf, in order
  launched,       \* history: the children forked, as [slot, pid, pipe]
  fdtab           \* the descriptors above epoll's: fd -> pipe id, or 0 for a file

vars == <<pc, exit_code, stop, batch, in_buf, outer_cur, out_buf,
          out_fd_blocked, childs, child_pids, sched_todo, stdin_q, in_closed,
          sends, rx, out_free, out_edge, stdout, now, pipes, procs, sigq, qframes,
          launched, fdtab>>

\* what the program owns
progvars == <<pc, exit_code, stop, batch, in_buf, outer_cur, out_buf,
              out_fd_blocked, childs, child_pids>>

(***************************************************************************)
(* The clock: clock_gettime(CLOCK_MONOTONIC_RAW) in nanoseconds.  The      *)
(* values cover each width ltx_write_number distinguishes.                 *)
(***************************************************************************)
ClockVals == << U64(5), U64(200), <<0, 0, 1, 4464>>, <<0, 1, 0, 0>> >>

ltx_gettime == ClockVals[now]

(***************************************************************************)
(* struct ltx_buf                                                          *)
(***************************************************************************)
ltx_buf_avail(buf) == BUFSIZ - (buf.off + buf.used)

\* childs[t] and child_pids[t] of the zero-initialised static arrays
Childs(t) == IF t \in DOMAIN childs THEN childs[t] ELSE [fd |-> 0, pid |-> 0]

ChildPid(t) == IF t \in DOMAIN child_pids THEN child_pids[t] ELSE 0

(***************************************************************************)
(* The cursor.  A read at or past data + BUFSIZ leaves the array: ub.     *)
(***************************************************************************)
InArray(ptr, n) == ptr >= 0 /\ ptr + n <= BUFSIZ

ltx_cur_shift(cur) == [ptr |-> cur.ptr + 1, left |-> SizeSub(cur.left, 1)]

ltx_cur_take(cur, len) == [ptr |-> cur.ptr + len, left |-> SizeSub(cur.left, len)]

\* d[0..len) folded as the loop does: res <<= i * 8; res += d[i]
ltx_read_size(data, ptr, len) ==
  LET d(i) == data[ptr + i]
  IN  CASE len = 1 -> d(0)
        [] len = 2 -> d(0) * 256 + d(1)
        [] len = 3 -> IF d(0) * 256 + d(1) >= SizeMod \div 65536
                      THEN SizeMod - 1
                      ELSE (d(0) * 256 + d(1)) * 65536 + d(2)

\* the n bytes at ptr are inside the array the cursor walks
InData(data, ptr, n) == ptr >= 0 /\ ptr + n <= Cardinality(DOMAIN data)

\* ltx_read_str returning the bytes that are there when the string is cut
ltx_read_str_cut(data, cur0) ==
  LET none == [ub |-> FALSE, fatal |-> FALSE, ok |-> FALSE, len |-> 0,
               str |-> <<>>, cur |-> cur0]
  IN
  IF ~InData(data, cur0.ptr, 1) THEN [none EXCEPT !.ub = TRUE]
  ELSE
    LET fmt == data[cur0.ptr]
        cur1 == ltx_cur_shift(cur0)
        isfix == fmt >= msgp_fixstr0 /\ fmt <= msgp_fixstr31
        isstr == fmt >= msgp_str8 /\ fmt <= msgp_str32
        w == IF isstr THEN 1 + fmt - msgp_str8 ELSE 0
    IN
    IF ~isfix /\ ~isstr THEN [none EXCEPT !.fatal = TRUE]
    ELSE IF w > cur1.left THEN none
    ELSE IF w > 0 /\ ~InData(data, cur1.ptr, w) THEN [none EXCEPT !.ub = TRUE]
    ELSE
      LET cur2 == IF w > 0 THEN ltx_cur_take(cur1, w) ELSE cur1
          l == Min(cur2.left, IF w > 0 THEN ltx_read_size(data, cur1.ptr, w)
                              ELSE fmt - msgp_fixstr0)
      IN
      IF ~InData(data, cur2.ptr, l) THEN [none EXCEPT !.ub = TRUE]
      ELSE [ub |-> FALSE, fatal |-> FALSE, ok |-> TRUE, len |-> l,
            str |-> [i \in 1..l |-> data[cur2.ptr + i - 1]],
            cur |-> ltx_cur_take(cur2, l)]

\* ltx_read_str: [ub, fatal, ok, len, str, cur]; ok is FALSE for data = NULL
ltx_read_str(data, cur0) ==
  LET none == [ub |-> FALSE, fatal |-> FALSE, ok |-> FALSE, len |-> 0,
               str |-> <<>>, cur |-> cur0]
  IN
  IF ~InData(data, cur0.ptr, 1) THEN [none EXCEPT !.ub = TRUE]
  ELSE
    LET fmt == data[cur0.ptr]
        cur1 == ltx_cur_shift(cur0)
        isfix == fmt >= msgp_fixstr0 /\ fmt <= msgp_fixstr31
        isstr == fmt >= msgp_str8 /\ fmt <= msgp_str32
        w == IF isstr THEN 1 + fmt - msgp_str8 ELSE 0
    IN
    IF ~isfix /\ ~isstr THEN [none EXCEPT !.fatal = TRUE]
    ELSE IF w > cur1.left THEN none
    ELSE IF w > 0 /\ ~InData(data, cur1.ptr, w) THEN [none EXCEPT !.ub = TRUE]
    ELSE
      LET l == IF w > 0 THEN ltx_read_size(data, cur1.ptr, w)
               ELSE fmt - msgp_fixstr0
          cur2 == IF w > 0 THEN ltx_cur_take(cur1, w) ELSE cur1
      IN
      IF l > cur2.left THEN none
      ELSE IF ~InData(data, cur2.ptr, l) THEN [none EXCEPT !.ub = TRUE]
      ELSE [ub |-> FALSE, fatal |-> FALSE, ok |-> TRUE, len |-> l,
            str |-> [i \in 1..l |-> data[cur2.ptr + i - 1]],
            cur |-> ltx_cur_take(cur2, l)]


(***************************************************************************)
(* Output: drain_write_buf, and ltx_log's write straight to the fd        *)
(***************************************************************************)
Tag(o, s) == [i \in 1..Len(s) |-> <<o, s[i]>>]

\* drain_write_buf giving up one byte before the pipe is full
drain_write_buf_early(nb, free, blocked) ==
  LET k == Min(Len(nb), Max(0, free - 1))
  IN  [buf |-> SubSeq(nb, k + 1, Len(nb)), wrote |-> SubSeq(nb, 1, k),
       free |-> free - k, blocked |-> IF k < Len(nb) THEN 1 ELSE blocked]

\* drain_write_buf on a non-blocking fd with `free` bytes of room: write()
\* takes what fits; the next write() of the loop gets EAGAIN
drain_write_buf(nb, free, blocked) ==
  LET k == Min(Len(nb), free)
  IN  [buf |-> SubSeq(nb, k + 1, Len(nb)), wrote |-> SubSeq(nb, 1, k),
       free |-> free - k, blocked |-> IF k < Len(nb) THEN 1 ELSE blocked]

NoDrain(nb) ==
  [buf |-> nb, wrote |-> <<>>, free |-> out_free, blocked |-> out_fd_blocked]

\* if (out_buf.used > BUFSIZ / 4) drain_write_buf();
HighWater(nb) ==
  IF Len(nb) > BUFSIZ \div 4
  THEN drain_write_buf(nb, out_free, out_fd_blocked)
  ELSE NoDrain(nb)

\* if (out_buf.used && !out_fd_blocked) drain_write_buf();
LoopDrain(nb) ==
  IF nb # <<>> /\ out_fd_blocked = 0
  THEN drain_write_buf(nb, out_free, out_fd_blocked)
  ELSE NoDrain(nb)

SetOut(r) ==
  /\ out_buf' = r.buf
  /\ stdout' = stdout \o Tag("q", r.wrote)
  /\ out_free' = r.free
  /\ out_fd_blocked' = r.blocked

\* the text of a diagnostic, by the line of its LTX_LOG or assertion
LogText(line) == <<line % 256>>

\* the frame ltx_log builds in its own buffer
LogFrame(line) ==
  ltx_write_msg(ltx_msg_log,
                <<LTX_NIL, LTX_NUMBER(ltx_gettime),
                  LTX_STR(Len(LogText(line)), LogText(line))>>)

\* ltx_log's loop on the non-blocking fd: write until write() fails
ltx_log(line) ==
  LET k == Min(Len(LogFrame(line)), out_free)
  IN  /\ stdout' = stdout \o Tag("d", SubSeq(LogFrame(line), 1, k))
      /\ out_free' = out_free - k

\* a history record of one frame appended to out_buf
Fr(type, slot, t, text, code, status) ==
  [type |-> type, slot |-> slot, t |-> t, text |-> text,
   code |-> code, status |-> status]

(***************************************************************************)
(* Ways a step ends other than by returning                                *)
(***************************************************************************)
\* a store or load outside an array: undefined behaviour, not followed
GoUb ==
  /\ pc' = "ub"
  /\ UNCHANGED <<exit_code, stop, batch, in_buf, outer_cur, out_buf,
                 out_fd_blocked, childs, child_pids, sched_todo, stdin_q,
                 in_closed, sends, rx, out_free, out_edge, stdout, now, pipes,
                 procs, sigq, qframes, launched, fdtab>>

\* ltx_buf_push and memmove past data[BUFSIZ - 1] of out_buf: used grows
\* beyond BUFSIZ and the bytes land in what follows the array; not followed
Overflow(nb) ==
  /\ pc' = "ub"
  /\ out_buf' = nb
  /\ UNCHANGED <<exit_code, stop, batch, in_buf, outer_cur, out_fd_blocked,
                 childs, child_pids, sched_todo, stdin_q, in_closed, sends, rx,
                 out_free, out_edge, stdout, now, pipes, procs, sigq, qframes,
                 launched, fdtab>>

\* ltx_assert failing, or LTX_EXP_*: ltx_log, then exit(1).  nb and frs are
\* what the handler had appended to out_buf before it failed.
Fatal(line, nb, frs) ==
  /\ pc' = "exited"
  /\ exit_code' = 1
  /\ out_buf' = nb
  /\ qframes' = qframes \o frs
  /\ ltx_log(line)
  /\ UNCHANGED <<stop, batch, in_buf, outer_cur, out_fd_blocked, childs,
                 child_pids, sched_todo, stdin_q, in_closed, sends, rx, out_edge,
                 now, pipes, procs, sigq, launched, fdtab>>

(***************************************************************************)
(* The environment                                                         *)
(***************************************************************************)
Running == pc \notin {"exited", "ub"}

\* the length of the message a scheduler's stream starts with
FirstMsgLen(s) ==
  CASE s[2] = ltx_msg_ping -> 2
    [] s[2] = ltx_msg_exec -> 4 + (s[4] - msgp_fixstr0)
    [] s[2] = ltx_msg_get_file -> 3 + (s[3] - msgp_fixstr0)

\* the scheduler writes the next k bytes of its stream to stdin
SchedSendK(sizes) ==
  /\ Running
  /\ ~in_closed /\ sends < MaxSends
  /\ \E k \in sizes \cap 1..Len(sched_todo) :
       /\ stdin_q' = stdin_q \o SubSeq(sched_todo, 1, k)
       /\ sched_todo' = SubSeq(sched_todo, k + 1, Len(sched_todo))
  /\ sends' = sends + 1
  /\ UNCHANGED rx
  /\ UNCHANGED <<progvars, in_closed, out_free, out_edge, stdout, now, pipes,
                 procs, sigq, qframes, launched, fdtab>>

\* a write of any size, cutting messages anywhere
SchedSend == SchedSendK(1..Len(sched_todo))

\* a write of one whole message, or of all that is left
SchedSendMsg ==
  /\ sched_todo # <<>>
  /\ SchedSendK({FirstMsgLen(sched_todo), Len(sched_todo)})

\* the scheduler closes its end of stdin
SchedHangup ==
  /\ Running
  /\ ~in_closed /\ sched_todo = <<>>
  /\ in_closed' = TRUE
  /\ UNCHANGED <<progvars, sched_todo, stdin_q, sends, rx, out_free, out_edge,
                 stdout, now, pipes, procs, sigq, qframes, launched, fdtab>>

\* the scheduler reads what is in the stdout pipe; a full pipe becoming
\* writable is the edge EPOLLET reports
SchedRead ==
  /\ Running
  /\ out_free < OutCap
  /\ out_free' = OutCap
  /\ out_edge' = (out_edge \/ out_free = 0)
  /\ UNCHANGED <<progvars, sched_todo, stdin_q, in_closed, sends, rx, stdout, now,
                 pipes, procs, sigq, qframes, launched, fdtab>>

Tick ==
  /\ Running
  /\ now < Len(ClockVals)
  /\ now' = now + 1
  /\ UNCHANGED <<progvars, sched_todo, stdin_q, in_closed, sends, rx, out_free,
                 out_edge, stdout, pipes, procs, sigq, qframes, launched, fdtab>>

\* the k-th byte child p writes
ChildByte(p, k) == 16 * p + k

\* a running child writes one byte to its stdout or stderr
ChildWrite ==
  \E p \in DOMAIN procs :
    /\ Running
    /\ procs[p].alive
    /\ procs[p].wrote < MaxChildOut
    /\ Len(pipes[procs[p].pipe].buf) < PipeCap
    /\ pipes' = [pipes EXCEPT ![procs[p].pipe].buf =
                   Append(@, ChildByte(p, procs[p].wrote + 1))]
    /\ procs' = [procs EXCEPT ![p].wrote = @ + 1]
    /\ UNCHANGED <<progvars, sched_todo, stdin_q, in_closed, sends, rx, out_free,
                   out_edge, stdout, now, sigq, qframes, launched, fdtab>>

CLD_EXITED == 1

\* the status child p exits with: a failure for the odd pids
ExitStatus(p) == p % 2

\* a child exits: its write end closes, and SIGCHLD (blocked by the parent,
\* a standard signal: one pending instance at most) is raised
ChildExit ==
  \E p \in DOMAIN procs :
    /\ Running
    /\ procs[p].alive
    /\ procs' = [procs EXCEPT ![p].alive = FALSE, ![p].status = ExitStatus(p)]
    /\ pipes' = [pipes EXCEPT ![procs[p].pipe].writers = 0]
    /\ sigq' = IF sigq = <<>>
               THEN <<[ssi_pid |-> p, ssi_code |-> CLD_EXITED, ssi_status |-> ExitStatus(p)]>>
               ELSE sigq
    /\ UNCHANGED <<progvars, sched_todo, stdin_q, in_closed, sends, rx, out_free,
                   out_edge, stdout, now, qframes, launched, fdtab>>

\* main: ltx_pid = getpid(); the parent is process 0, the children 1, 2, ...
ltx_pid == 0

\* getpid() answering with the parent's pid in a child
getpid_parent(p) == ltx_pid

\* getpid() in process p
getpid(p) == p

\* what ltx_log, called in process p, writes to ltx_out.fd after its
\* write to stderr: nothing when p is not the process that set ltx_pid
ltx_log_frame(p, line) ==
  IF ltx_pid # getpid(p) THEN <<>> ELSE LogFrame(line)

\* a child fails between fork and exec: the first dup2, the second dup2 or
\* execv returns an error, LTX_EXP_* calls ltx_log and exit(1).  stderr is
\* the pipe once the first dup2 is done, stdout once the second is.
ChildFail ==
  \E p \in DOMAIN procs, line \in {1184, 1185, 1189} :
    /\ Running
    /\ procs[p].alive /\ procs[p].wrote = 0
    /\ LET text == IF line = 1184 THEN <<>> ELSE LogText(line)
           frame == ltx_log_frame(p, line)
           topipe == text \o (IF line = 1189 THEN frame ELSE <<>>)
           tosched == IF line = 1189 THEN <<>> ELSE frame
       IN  /\ pipes' = [pipes EXCEPT ![procs[p].pipe].buf = @ \o topipe,
                                     ![procs[p].pipe].writers = 0]
           /\ stdout' = stdout \o Tag("c", tosched)
           /\ out_free' = Max(0, out_free - Len(tosched))
    /\ procs' = [procs EXCEPT ![p].alive = FALSE, ![p].status = 1]
    /\ sigq' = IF sigq = <<>>
               THEN <<[ssi_pid |-> p, ssi_code |-> CLD_EXITED, ssi_status |-> 1]>>
               ELSE sigq
    /\ UNCHANGED <<progvars, sched_todo, stdin_q, in_closed, sends, rx,
                   out_edge, now, qframes, launched, fdtab>>


(***************************************************************************)
(* event_loop: epoll_wait                                                  *)
(***************************************************************************)
\* an epoll event: the source, its flags, and for a child the slot of the
\* registered ltx_ev_source and the pipe that raised it
Ev(src, slot, in, hup, q) ==
  [src |-> src, slot |-> slot, in |-> in, hup |-> hup, q |-> q]

\* The events epoll_wait returns.  stdin is level-triggered EPOLLIN; stdout
\* is EPOLLOUT | EPOLLET; the signalfd is EPOLLIN; a child's pipe is added
\* with EPOLLOUT only, which the read end of a pipe never raises, so it is
\* reported when all its writers are gone (EPOLLHUP is always reported).
Ready ==
  (IF stdin_q # <<>> \/ in_closed
   THEN {Ev("in", 0, stdin_q # <<>>, in_closed, 0)} ELSE {})
  \cup (IF out_edge THEN {Ev("out", 0, FALSE, FALSE, 0)} ELSE {})
  \cup (IF sigq # <<>> THEN {Ev("sig", 0, TRUE, FALSE, 0)} ELSE {})
  \cup {Ev("child", pipes[q].slot, FALSE, TRUE, q) :
          q \in {r \in DOMAIN pipes : pipes[r].rd_open /\ pipes[r].writers = 0}}

EpollWait ==
  /\ pc = "wait" /\ stop = 0
  /\ batch' = Ready
  /\ out_edge' = FALSE
  /\ pc' = "events"
  /\ UNCHANGED <<exit_code, stop, in_buf, outer_cur, out_buf, out_fd_blocked,
                 childs, child_pids, sched_todo, stdin_q, in_closed, sends, rx,
                 out_free, stdout, now, pipes, procs, sigq, qframes, launched,
                 fdtab>>

(***************************************************************************)
(* process_event, one action per source type                               *)
(***************************************************************************)
\* fill_read_buf's read(): what is in the pipe, up to the room left
fill_read_buf(buf, q) ==
  LET n == Min(ltx_buf_avail(buf), Len(q))
  IN  [buf EXCEPT !.used = @ + n,
                  !.data = [i \in 0..(BUFSIZ - 1) |->
                              IF i >= buf.off + buf.used /\ i < buf.off + buf.used + n
                              THEN q[i - (buf.off + buf.used) + 1]
                              ELSE buf.data[i]]]

\* ev_src->type == ltx_ev_io: stdin or stdout
EvIo ==
  /\ pc = "events"
  /\ \E e \in batch :
       /\ e.src \in {"in", "out"}
       /\ IF e.src = "in" /\ e.in /\ ~(ltx_buf_avail(in_buf) > 0)
          THEN Fatal(1063, out_buf, <<>>)
          ELSE
            /\ batch' = batch \ {e}
            /\ IF e.src = "in" /\ e.in
               THEN /\ in_buf' = fill_read_buf(in_buf, stdin_q)
                    /\ rx' = rx \o SubSeq(stdin_q, 1,
                                Min(ltx_buf_avail(in_buf), Len(stdin_q)))
                    /\ stdin_q' = SubSeq(stdin_q,
                                         Min(ltx_buf_avail(in_buf), Len(stdin_q)) + 1,
                                         Len(stdin_q))
               ELSE UNCHANGED <<in_buf, stdin_q, rx>>
            /\ out_fd_blocked' = IF e.src = "out" THEN 0 ELSE out_fd_blocked
            /\ stop' = IF e.hup THEN stop + 1 ELSE stop
            /\ UNCHANGED <<pc, exit_code, outer_cur, out_buf, childs,
                           child_pids, sched_todo, in_closed, sends, out_free,
                           out_edge, stdout, now, pipes, procs, sigq, qframes,
                           launched, fdtab>>

\* the slot the scan of child_pids stops at, NSlots when it finds none
FindPid(pid) ==
  IF \E t \in DOMAIN child_pids : child_pids[t] = pid
  THEN CHOOSE t \in DOMAIN child_pids :
         /\ child_pids[t] = pid
         /\ \A u \in DOMAIN child_pids : child_pids[u] = pid => t <= u
  ELSE NSlots

\* ev_src->type == ltx_ev_signal: read the signalfd, emit a Result
EvSignal ==
  /\ pc = "events"
  /\ \E e \in batch :
       /\ e.src = "sig"
       /\ LET si == sigq[1]
              table_id == FindPid(si.ssi_pid)
              fr == ltx_write_msg(ltx_msg_result,
                      <<LTX_NUMBER(U64(table_id)), LTX_NUMBER(ltx_gettime),
                        LTX_NUMBER(U64(si.ssi_code)), LTX_NUMBER(U64(si.ssi_status))>>)
              nb == out_buf \o fr
          IN  IF ~(table_id < NSlots) THEN Fatal(1335, out_buf, <<>>)
              ELSE IF Len(nb) > BUFSIZ THEN Overflow(nb)
              ELSE
                /\ sigq' = <<>>
                /\ batch' = batch \ {e}
                /\ qframes' = Append(qframes,
                     Fr(ltx_msg_result, table_id, ltx_gettime, <<>>,
                        si.ssi_code, si.ssi_status))
                /\ SetOut(HighWater(nb))
                /\ UNCHANGED <<pc, exit_code, stop, in_buf, outer_cur, childs,
                               child_pids, sched_todo, stdin_q, in_closed,
                               sends, rx, out_edge, now, pipes, procs, launched,
                               fdtab>>


\* read() on a pipe: the oldest n bytes
PipeRead(buf, n) == SubSeq(buf, 1, n)

\* close(fd)
CloseFd(fd) == [f \in DOMAIN fdtab \ {fd} |-> fdtab[f]]

\* ev_src->type == ltx_ev_child_io with EPOLLHUP or EPOLLOUT: read from
\* ev_src->fd into out_buf, 32 bytes past its end, and frame what was read
EvChild ==
  /\ pc = "events"
  /\ \E e \in batch :
       /\ e.src = "child"
       /\ LET t == e.slot
              fd == Childs(t).fd
              isopen == fd \in DOMAIN fdtab
              q == IF isopen THEN fdtab[fd] ELSE 0
              avail == BUFSIZ - Len(out_buf)
              count == ltx_min_sz(LogChunk, SizeSub(avail, LogGap))
              len == IF q = 0 THEN 0 ELSE Min(count, Len(pipes[q].buf))
              text == IF q = 0 THEN <<>> ELSE PipeRead(pipes[q].buf, len)
              fr == ltx_write_msg(ltx_msg_log,
                      <<LTX_NUMBER(U64(t)), LTX_NUMBER(ltx_gettime),
                        LTX_STR(len, text)>>)
              nb == IF len > 0 THEN out_buf \o fr ELSE out_buf
          IN  IF ~isopen THEN Fatal(1346, out_buf, <<>>)
              ELSE
                \* read() blocks on an empty pipe that still has a writer
                /\ q # 0 /\ count > 0 /\ pipes[q].buf = <<>> => pipes[q].writers = 0
                /\ IF len > 0 /\ Len(nb) > BUFSIZ THEN Overflow(nb)
                   ELSE IF len > 0 /\ Len(out_buf) + LogGap + len > BUFSIZ
                   THEN GoUb
                   ELSE
                     /\ batch' = batch \ {e}
                     /\ IF len > 0
                        THEN /\ pipes' = [pipes EXCEPT ![q].buf =
                                            SubSeq(@, len + 1, Len(@))]
                             /\ qframes' = Append(qframes,
                                  Fr(ltx_msg_log, t, ltx_gettime, text, 0, 0))
                             /\ UNCHANGED fdtab
                        ELSE /\ fdtab' = CloseFd(fd)
                             /\ pipes' = IF q = 0 THEN pipes
                                         ELSE [pipes EXCEPT ![q].rd_open = FALSE]
                             /\ UNCHANGED qframes
                     /\ SetOut(HighWater(nb))
                     /\ UNCHANGED <<pc, exit_code, stop, in_buf, outer_cur,
                                    childs, child_pids, sched_todo, stdin_q,
                                    in_closed, sends, rx, out_edge, now, procs,
                                    sigq, launched>>

\* the loop body after the events: drain, then process_msgs if two bytes
\* or more are buffered
AfterEvents ==
  /\ pc = "events" /\ batch = {}
  /\ SetOut(LoopDrain(out_buf))
  /\ IF in_buf.used < 2
     THEN pc' = "wait" /\ UNCHANGED outer_cur
     ELSE /\ pc' = "msgs"
          /\ outer_cur' = [ptr |-> in_buf.off, left |-> in_buf.used]
  /\ UNCHANGED <<exit_code, stop, batch, in_buf, childs, child_pids,
                 sched_todo, stdin_q, in_closed, sends, rx, out_edge, now, pipes,
                 procs, sigq, qframes, launched, fdtab>>

\* main after event_loop returns: LTX_LOG("Exiting"); return 0
Exit ==
  /\ pc = "wait" /\ stop # 0
  /\ pc' = "exited"
  /\ exit_code' = 0
  /\ ltx_log(1418)
  /\ UNCHANGED <<stop, batch, in_buf, outer_cur, out_buf, out_fd_blocked,
                 childs, child_pids, sched_todo, stdin_q, in_closed, sends, rx,
                 out_edge, now, pipes, procs, sigq, qframes, launched, fdtab>>


(***************************************************************************)
(* process_msgs: one step per iteration of its loop                        *)
(***************************************************************************)
MsgFmt == in_buf.data[outer_cur.ptr]

MsgType == in_buf.data[outer_cur.ptr + 1]

\* msg_fmt & msgp_fixarray0
FixarrayBits(fmt) == (fmt \div 128) % 2 = 1 \/ (fmt \div 16) % 2 = 1

\* msg_arr_len one too large
MsgArrLenOff == (MsgFmt + 257 - msgp_fixarray0) % 256

\* (uint8_t)(msg_fmt - msgp_fixarray0)
MsgArrLen == (MsgFmt + 256 - msgp_fixarray0) % 256

\* the cursor after the two ltx_cur_shift of the loop head
MsgCur == ltx_cur_shift(ltx_cur_shift(outer_cur))

InMsg == pc = "msgs" /\ outer_cur.left > 1 /\ InArray(outer_cur.ptr, 2)

\* out: of process_msgs, then event_loop's second drain
OutLabel(left) ==
  LET off == SizeSub(in_buf.used, left)
  IN  IF off + left > BUFSIZ THEN GoUb
      ELSE
        /\ in_buf' = [off |-> off, used |-> left,
                      data |-> [i \in 0..(BUFSIZ - 1) |->
                                  IF i < left THEN in_buf.data[off + i]
                                  ELSE in_buf.data[i]]]
        /\ pc' = "wait"
        /\ SetOut(LoopDrain(out_buf))
        /\ UNCHANGED <<exit_code, stop, batch, outer_cur, childs, child_pids,
                       sched_todo, stdin_q, in_closed, sends, rx, out_edge, now,
                       pipes, procs, sigq, qframes, launched, fdtab>>

\* the loop ends: fewer than two bytes are left
MsgsOut ==
  /\ pc = "msgs" /\ ~(outer_cur.left > 1)
  /\ OutLabel(outer_cur.left)

\* case ltx_msg_ping
MsgPing ==
  /\ InMsg /\ FixarrayBits(MsgFmt) /\ MsgType = ltx_msg_ping /\ MsgArrLen = 1
  /\ LET nb == out_buf \o ltx_write_msg(ltx_msg_ping, <<>>)
                       \o ltx_write_msg(ltx_msg_pong, <<LTX_NUMBER(ltx_gettime)>>)
     IN  IF Len(nb) > BUFSIZ THEN Overflow(nb)
         ELSE
           /\ qframes' = qframes \o
                <<Fr(ltx_msg_ping, -1, U64(0), <<>>, 0, 0),
                  Fr(ltx_msg_pong, -1, ltx_gettime, <<>>, 0, 0)>>
           /\ outer_cur' = MsgCur
           /\ SetOut(HighWater(nb))
           /\ UNCHANGED <<pc, exit_code, stop, batch, in_buf, childs,
                          child_pids, sched_todo, stdin_q, in_closed, sends, rx,
                          out_edge, now, pipes, procs, sigq, launched, fdtab>>

\* the assertions of the loop head and of the switch
MsgBad ==
  /\ pc = "msgs" /\ outer_cur.left > 1
  /\ IF ~InArray(outer_cur.ptr, 2) THEN GoUb
     ELSE
       \/ ~FixarrayBits(MsgFmt) /\ Fatal(1238, out_buf, <<>>)
       \/ /\ FixarrayBits(MsgFmt)
          /\ \/ MsgType = ltx_msg_ping /\ MsgArrLen # 1 /\ Fatal(1247, out_buf, <<>>)
             \/ MsgType = ltx_msg_pong /\ Fatal(1256, out_buf, <<>>)
             \/ MsgType = ltx_msg_env /\ Fatal(1258, out_buf, <<>>)
             \/ MsgType = ltx_msg_exec /\ ~(MsgArrLen > 2) /\ Fatal(1260, out_buf, <<>>)
             \/ MsgType = ltx_msg_log /\ Fatal(1269, out_buf, <<>>)
             \/ MsgType = ltx_msg_result /\ Fatal(1271, out_buf, <<>>)
             \/ MsgType = ltx_msg_get_file /\ MsgArrLen # 2 /\ Fatal(1273, out_buf, <<>>)
             \/ MsgType = ltx_msg_set_file /\ Fatal(1281, out_buf, <<>>)
             \/ MsgType = ltx_msg_data /\ Fatal(1283, out_buf, <<>>)
             \/ /\ MsgType > ltx_msg_data
                /\ IF MsgType < ltx_msg_max
                   THEN \* the assertion of default: passes; the message is dropped
                        /\ outer_cur' = MsgCur
                        /\ SetOut(HighWater(out_buf))
                        /\ UNCHANGED <<pc, exit_code, stop, batch, in_buf,
                                       childs, child_pids, sched_todo, stdin_q,
                                       in_closed, sends, rx, out_edge, now,
                                       pipes, procs, sigq, qframes, launched,
                                       fdtab>>
                   ELSE Fatal(1285, out_buf, <<>>)

\* the lowest descriptor not in use; 0..4 are stdin, stdout, stderr, the
\* signalfd and the epoll descriptor
LowestFree ==
  CHOOSE n \in 5..(5 + Cardinality(DOMAIN fdtab)) :
    n \notin DOMAIN fdtab /\ \A m \in 5..(n - 1) : m \in DOMAIN fdtab

\* case ltx_msg_exec: process_exec_msg
MsgExec ==
  /\ InMsg /\ FixarrayBits(MsgFmt) /\ MsgType = ltx_msg_exec /\ MsgArrLen > 2
  /\ LET args_n == MsgArrLen - 1
         cur0 == MsgCur
         table_id == in_buf.data[cur0.ptr]
         cur1 == ltx_cur_shift(cur0)
     IN
     \E path \in {ltx_read_str(in_buf.data, cur1)} :
     LET ack == ltx_write_msg(ltx_msg_exec,
                  <<LTX_NUMBER(U64(table_id)), LTX_STR(path.len, path.str)>>)
         ackfr == Fr(ltx_msg_exec, table_id, U64(0), path.str, 0, 0)
         nb == out_buf \o ack
         rd == LowestFree
         q == Len(pipes) + 1
         child == Len(procs) + 1
     IN  IF ~InArray(cur0.ptr, 1) THEN GoUb
         ELSE IF ~(table_id < NSlots) THEN Fatal(1156, out_buf, <<>>)
         ELSE IF cur1.left = 0 THEN OutLabel(outer_cur.left)
         ELSE IF path.ub THEN GoUb
         ELSE IF path.fatal THEN Fatal(1126, out_buf, <<>>)
         ELSE IF ~path.ok THEN OutLabel(outer_cur.left)
         ELSE IF Len(nb) > BUFSIZ THEN Overflow(nb)
         ELSE IF args_n # 2 THEN Fatal(1170, nb, <<ackfr>>)
         ELSE
           /\ pipes' = Append(pipes, [buf |-> <<>>, writers |-> 1,
                                      rd_open |-> TRUE, slot |-> table_id])
           /\ fdtab' = [f \in DOMAIN fdtab \cup {rd} |->
                          IF f = rd THEN q ELSE fdtab[f]]
           /\ procs' = Append(procs, [alive |-> TRUE, pipe |-> q, wrote |-> 0,
                                      status |-> 0])
           /\ childs' = [t \in DOMAIN childs \cup {table_id} |->
                           IF t = table_id THEN [fd |-> rd, pid |-> child]
                           ELSE childs[t]]
           /\ child_pids' = [t \in DOMAIN child_pids \cup {table_id} |->
                               IF t = table_id THEN child ELSE child_pids[t]]
           /\ launched' = Append(launched,
                            [slot |-> table_id, pid |-> child, pipe |-> q])
           /\ qframes' = Append(qframes, ackfr)
           /\ outer_cur' = path.cur
           /\ SetOut(HighWater(nb))
           /\ UNCHANGED <<pc, exit_code, stop, batch, in_buf, sched_todo,
                          stdin_q, in_closed, sends, rx, out_edge, now, sigq>>

\* the files of the system under test, by path: a short one, one longer
\* than sendfile's count, one of the size limit, one above it
Files ==
  (<<102>> :> <<104, 105>>)
    @@ (<<103>> :> [i \in 1..(SendfileMax + 1) |-> 110 + i])
    @@ (<<104>> :> [i \in 1..FileMax |-> 120 + i])
    @@ (<<105>> :> [i \in 1..(FileMax + 1) |-> 130 + i])

\* the fd left non-blocking: what fits in the pipe is written
drain_nonblocking(o, s) == Tag(o, SubSeq(s, 1, Min(Len(s), out_free)))

\* drain_write_buf and sendfile on the fd made blocking: every byte is
\* written, the call waiting for the scheduler to make room
drain_blocking(o, s) == Tag(o, s)

\* case ltx_msg_get_file: process_get_file_msg
MsgGetFile ==
  /\ InMsg /\ FixarrayBits(MsgFmt) /\ MsgType = ltx_msg_get_file /\ MsgArrLen = 2
  /\ \E path \in {ltx_read_str(in_buf.data, MsgCur)} :
     LET ack == ltx_write_msg(ltx_msg_get_file, <<LTX_STR(path.len, path.str)>>)
         ackfr == Fr(ltx_msg_get_file, -1, U64(0), path.str, 0, 0)
         nb1 == out_buf \o ack
         exists == path.str \in DOMAIN Files
         content == IF exists THEN Files[path.str] ELSE <<>>
         st_size == Len(content)
         hdr == ltx_write_msg(ltx_msg_data, <<LTX_BIN(st_size)>>)
         hdrfr == Fr(ltx_msg_data, -1, U64(0), <<>>, st_size, 0)
         nb2 == nb1 \o hdr
         len == Min(st_size, SendfileMax)
         sent == drain_blocking("q", nb2)
                   \o drain_blocking("f", SubSeq(content, 1, len))
         free == Max(0, out_free - Len(sent))
     IN  IF path.ub THEN GoUb
         ELSE IF path.fatal THEN Fatal(1126, out_buf, <<>>)
         ELSE IF ~path.ok THEN OutLabel(outer_cur.left)
         ELSE IF Len(nb1) > BUFSIZ THEN Overflow(nb1)
         ELSE IF ~exists THEN Fatal(1208, nb1, <<ackfr>>)
         ELSE IF ~(st_size < FileMax) THEN Fatal(1211, nb1, <<ackfr>>)
         ELSE IF Len(nb2) > BUFSIZ THEN Overflow(nb2)
         ELSE
           \* the fd is made blocking: the drain and sendfile complete
           /\ out_buf' = <<>>
           /\ qframes' = qframes \o <<ackfr, hdrfr>>
           /\ out_edge' = (out_edge \/ Len(sent) > out_free)
           /\ fdtab' = [f \in DOMAIN fdtab \cup {LowestFree} |->
                          IF f = LowestFree THEN 0 ELSE fdtab[f]]
           /\ IF len = st_size
              THEN /\ stdout' = stdout \o sent
                   /\ out_free' = free
                   /\ outer_cur' = path.cur
                   /\ UNCHANGED <<pc, exit_code>>
              ELSE \* the assertion len == st.st_size fails
                   LET k == Min(Len(LogFrame(1221)), free)
                   IN  /\ stdout' = stdout \o sent
                                      \o Tag("d", SubSeq(LogFrame(1221), 1, k))
                       /\ out_free' = free - k
                       /\ pc' = "exited"
                       /\ exit_code' = 1
                       /\ UNCHANGED outer_cur
           /\ UNCHANGED <<stop, batch, in_buf, out_fd_blocked, childs,
                          child_pids, sched_todo, stdin_q, in_closed, sends, rx,
                          now, pipes, procs, sigq, launched>>

(***************************************************************************)
(* The messages a scheduler sends, in the shortest encoding               *)
(***************************************************************************)
PingMsg == <<msgp_fixarray0 + 1, ltx_msg_ping>>

ExecMsg(t, path) ==
  <<msgp_fixarray0 + 3, ltx_msg_exec, t, msgp_fixstr0 + Len(path)>> \o path

GetFileMsg(path) ==
  <<msgp_fixarray0 + 2, ltx_msg_get_file, msgp_fixstr0 + Len(path)>> \o path

PathA == <<97>>

PathF == <<102>>

(***************************************************************************)
(* The state after main has logged the version (a blocking write, before   *)
(* event_loop makes stdout non-blocking) and event_loop has set up epoll.  *)
(***************************************************************************)
InitWith(scripts, free) ==
  /\ pc = "wait"
  /\ exit_code = -1
  /\ stop = 0
  /\ batch = {}
  /\ in_buf = [off |-> 0, used |-> 0, data |-> [i \in 0..(BUFSIZ - 1) |-> 0]]
  /\ outer_cur = [ptr |-> 0, left |-> 0]
  /\ out_buf = <<>>
  /\ out_fd_blocked = 0
  /\ childs = <<>>
  /\ child_pids = <<>>
  /\ sched_todo \in scripts
  /\ stdin_q = <<>>
  /\ in_closed = FALSE
  /\ sends = 0
  /\ rx = <<>>
  /\ out_free = free
  /\ out_edge = TRUE
  /\ now = 1
  /\ stdout = Tag("d", ltx_write_msg(ltx_msg_log,
                <<LTX_NIL, LTX_NUMBER(ClockVals[1]),
                  LTX_STR(Len(LogText(1414)), LogText(1414))>>))
  /\ pipes = <<>>
  /\ procs = <<>>
  /\ sigq = <<>>
  /\ qframes = <<>>
  /\ launched = <<>>
  /\ fdtab = <<>>

(***************************************************************************)
(* Specifications                                                          *)
(*                                                                         *)
(* The parent observes the scheduler and its children only through the     *)
(* system calls of its handlers, so their moves are taken between two      *)
(* iterations of the loop (at epoll_wait), except where a specification    *)
(* is about the timing of writes to stdout.                                *)
(***************************************************************************)
AtWait(A) == pc = "wait" /\ A

Loop == EpollWait \/ EvIo \/ AfterEvents \/ MsgsOut \/ Exit

\* Spec: Exec, the children, their pipes and SIGCHLD.  The scheduler reads
\* stdout as fast as it is written.
ExecScripts ==
  { ExecMsg(0, PathA) \o ExecMsg(1, PathA),
    ExecMsg(0, PathA) \o ExecMsg(0, PathA) }

NoBackpressure == 1000

Init == InitWith(ExecScripts, NoBackpressure)

Next ==
  \/ AtWait(SchedSendMsg) \/ AtWait(SchedHangup)
  \/ AtWait(ChildWrite) \/ AtWait(ChildExit)
  \/ Loop \/ EvSignal \/ EvChild \/ MsgExec

Spec == Init /\ [][Next]_vars

\* SpecIn: valid streams of mixed messages, cut into writes anywhere, with
\* the clock advancing.  Children launched do not act.
InScripts ==
  { PingMsg \o GetFileMsg(PathF) \o PingMsg,
    ExecMsg(0, PathA) \o PingMsg \o PingMsg,
    PingMsg \o PingMsg \o ExecMsg(1, PathA) }

InitIn == InitWith(InScripts, NoBackpressure)

NextIn ==
  \/ AtWait(SchedSend) \/ AtWait(SchedHangup) \/ AtWait(Tick)
  \/ Loop \/ MsgPing \/ MsgExec \/ MsgGetFile \/ MsgBad

SpecIn == InitIn /\ [][NextIn]_vars

\* SpecOut: pings and requests for each file into a stdout pipe of OutCap bytes that the scheduler
\* empties at any moment.
OutScripts ==
  { PingMsg \o PingMsg, PingMsg \o PingMsg \o PingMsg,
    PingMsg \o PingMsg \o GetFileMsg(PathF) \o PingMsg }
    \cup { GetFileMsg(p) : p \in DOMAIN Files }

InitOut == InitWith(OutScripts, OutCap)

NextOut ==
  \/ AtWait(SchedSendMsg) \/ AtWait(SchedHangup) \/ SchedRead
  \/ Loop \/ MsgPing \/ MsgGetFile

SpecOut == InitOut /\ [][NextOut]_vars

\* SpecBlk: more pings than out_buf has room for answers, cut into writes
\* anywhere, into a stdout pipe the scheduler may never empty.
RECURSIVE Pings(_)
Pings(n) == IF n = 0 THEN <<>> ELSE PingMsg \o Pings(n - 1)

\* the bytes a ping and its pong take in out_buf, the clock at its start
PingPongLen ==
  Len(ltx_write_msg(ltx_msg_ping, <<>>))
    + Len(ltx_write_msg(ltx_msg_pong, <<LTX_NUMBER(ClockVals[1])>>))

BlkScripts == { Pings((BUFSIZ + OutCap) \div PingPongLen + 1) }

InitBlk == InitWith(BlkScripts, OutCap)

NextBlk ==
  \/ AtWait(SchedSend) \/ AtWait(SchedHangup) \/ SchedRead
  \/ Loop \/ MsgPing

SpecBlk == InitBlk /\ [][NextBlk]_vars

\* SpecBad: streams that break the protocol, one violation each, cut into
\* writes anywhere; the children launched by the valid messages act.
BadScripts ==
  { <<128>>, <<128, ltx_msg_ping>>, <<0, 0>>,
    PingMsg \o <<msgp_fixarray0 + 1, ltx_msg_result>> }
  \cup { <<msgp_fixarray0 + 1, t>> :
           t \in {ltx_msg_pong, ltx_msg_env, ltx_msg_log, ltx_msg_set_file,
                  ltx_msg_data, ltx_msg_data + 1, 255} }
  \cup { <<msgp_fixarray0 + 2, ltx_msg_ping>>, <<msgp_fixarray0, ltx_msg_ping>>,
         <<msgp_fixarray0 + 1, ltx_msg_get_file>>,
         <<msgp_fixarray0 + 3, ltx_msg_get_file>> \o SubSeq(GetFileMsg(PathF), 3, 4),
         <<msgp_fixarray0 + 2, ltx_msg_exec>> \o SubSeq(ExecMsg(0, PathA), 3, 5),
         <<msgp_fixarray0 + 4, ltx_msg_exec>> \o SubSeq(ExecMsg(0, PathA), 3, 5)
           \o <<msgp_fixstr0 + 1>> \o PathA }
  \cup { ExecMsg(NSlots - 1, PathA) \o ExecMsg(127, PathA), ExecMsg(255, PathA) }
  \cup { <<msgp_fixarray0 + 3, ltx_msg_exec, 0, msgp_str8, 1>> \o PathA,
         <<msgp_fixarray0 + 2, ltx_msg_get_file, msgp_str8, 1>> \o PathF }
  \cup { <<msgp_fixarray0 + 3, ltx_msg_exec, 0, msgp_str16, 0, 1>> \o PathA,
         <<msgp_fixarray0 + 3, ltx_msg_exec, 0, msgp_str32, 0, 0, 0, 1>> \o PathA,
         <<msgp_fixarray0 + 3, ltx_msg_exec, 0, msgp_nil>> }

InitBad == InitWith(BadScripts, NoBackpressure)

NextBad ==
  \/ AtWait(SchedSend) \/ AtWait(SchedHangup)
  \/ AtWait(ChildWrite) \/ AtWait(ChildExit) \/ AtWait(ChildFail)
  \/ Loop \/ EvSignal \/ EvChild
  \/ MsgPing \/ MsgExec \/ MsgGetFile \/ MsgBad

SpecBad == InitBad /\ [][NextBad]_vars

\* SpecCodec: the codec on its own.  ltx_write_number is called on an empty
\* buffer with a kind and a value; a string header is then followed by that
\* many bytes and read back with ltx_read_str from a cursor over the whole.
CodecSizes ==
  {U64(n) : n \in 0..40}
    \cup {U64(127), U64(128), U64(255), U64(256), U64(65535), U64(65536),
          U64(65537)}

CodecInputs ==
  ({ltx_array} \X {n \in CodecSizes : n[3] = 0})
    \cup ({ltx_number} \X (CodecSizes \cup {<<0, 0, 32768, 0>>, <<0, 0, 65535, 65535>>,
                                            <<0, 1, 0, 0>>, <<4660, 22136, 39612, 57072>>}))
    \cup ({ltx_str} \X CodecSizes)
    \cup ({ltx_bin} \X (CodecSizes \cup {<<0, 0, 65535, 65534>>}))

\* the bytes of a string of n bytes
Payload(n) == [i \in 1..n |-> i % 251]

\* the array a string object of n bytes is written to, indexed from 0
StrData(n) ==
  LET s == ltx_write_obj(LTX_STR(n, Payload(n)))
  IN  [i \in 0..(Len(s) - 1) |-> s[i + 1]]

InitCodec == InitWith({<<>>}, NoBackpressure)

\* ltx_write_number(&out_buf, kind, n); the call is kept in qframes
CodecWrite ==
  /\ qframes = <<>>
  /\ \E in \in CodecInputs :
       /\ out_buf' = ltx_write_number(in[1], in[2])
       /\ qframes' = <<Fr(in[1], -1, in[2], <<>>, 0, 0)>>
  /\ UNCHANGED <<pc, exit_code, stop, batch, in_buf, outer_cur, out_fd_blocked,
                 childs, child_pids, sched_todo, stdin_q, in_closed, sends, rx,
                 out_free, out_edge, stdout, now, pipes, procs, sigq, launched,
                 fdtab>>

\* ltx_read_str(&cur) over the string object of the size written
CodecRead ==
  /\ qframes # <<>> /\ qframes[1].type = ltx_str
  /\ outer_cur = [ptr |-> 0, left |-> 0]
  /\ LET data == StrData(qframes[1].t[3] * 65536 + qframes[1].t[4])
         cur == [ptr |-> 0, left |-> Cardinality(DOMAIN data)]
     IN  outer_cur' = ltx_read_str(data, cur).cur
  /\ UNCHANGED <<pc, exit_code, stop, batch, in_buf, out_buf, out_fd_blocked,
                 childs, child_pids, sched_todo, stdin_q, in_closed, sends, rx,
                 out_free, out_edge, stdout, now, pipes, procs, sigq, qframes,
                 launched, fdtab>>

NextCodec == CodecWrite \/ CodecRead

SpecCodec == InitCodec /\ [][NextCodec]_vars

\* SpecHup: the scheduler writes its messages, more of them than in_buf
\* holds in one of the streams, and hangs up; no child acts.
HupScripts ==
  { Pings(BUFSIZ \div 2 + 1), PingMsg \o ExecMsg(0, PathA) \o PingMsg }

InitHup == InitWith(HupScripts, NoBackpressure)

NextHup ==
  \/ AtWait(SchedSendMsg) \/ AtWait(SchedHangup)
  \/ Loop \/ MsgPing \/ MsgExec

SpecHup == InitHup /\ [][NextHup]_vars

\* SpecLive: Spec with the parent never stopping short of a step it can take:
\* epoll_wait returns after 100 ms at the latest, and every handler returns.
\* Nothing is assumed of the scheduler or of the children: a child may run
\* forever.
SpecLive ==
  Spec /\ WF_vars(Loop \/ EvSignal \/ EvChild \/ MsgExec)

\* SpecOutLive: SpecOut with the parent never stopping short of a step it
\* can take, and a scheduler that keeps reading what is in the stdout pipe.
SpecOutLive ==
  SpecOut /\ WF_vars(Loop \/ MsgPing \/ MsgGetFile) /\ WF_vars(SchedRead)

(***************************************************************************)
(* Properties: Exec, Log and Result (under Spec)                           *)
(***************************************************************************)
Slots == {launched[i].slot : i \in DOMAIN launched}

LaunchesFor(t) == Cardinality({i \in DOMAIN launched : launched[i].slot = t})

FramesOf(type, t) ==
  {i \in DOMAIN qframes : qframes[i].type = type /\ qframes[i].slot = t}

\* the parent has nothing left to learn: it has exited, or every child is
\* dead, no exit record is pending and the loop is idle
Quiescent ==
  \/ pc = "exited"
  \/ /\ pc = "wait" /\ sigq = <<>>
     /\ \A p \in DOMAIN procs : ~procs[p].alive

\* C1: every child launched in slot t gets exactly one Result frame for t:
\* once the parent is quiescent, slot t has as many Results as launches,
\* and it never has more.
C1_ExactlyOneResult ==
  /\ \A t \in Slots : Cardinality(FramesOf(ltx_msg_result, t)) <= LaunchesFor(t)
  /\ Quiescent =>
       \A t \in Slots : Cardinality(FramesOf(ltx_msg_result, t)) = LaunchesFor(t)

\* C2: for a slot that held one child, no Log frame of the slot is queued
\* after the slot's Result frame.
C2_ResultAfterLogs ==
  \A t \in Slots :
    LaunchesFor(t) = 1 =>
      \A i \in FramesOf(ltx_msg_result, t), j \in FramesOf(ltx_msg_log, t) : j < i

\* C3: at most one live child is registered under a slot id.
C3_SlotUnique ==
  \A t \in Slots :
    Cardinality({i \in DOMAIN launched :
                   launched[i].slot = t /\ procs[launched[i].pid].alive}) <= 1

\* C4: an Exec naming an occupied slot (its recorded pid is not 0) forks no
\* child and leaves the slot's pid and pipe fd as they are.
C4_OccupiedSlotRejected ==
  [][\A t \in DOMAIN childs :
       childs[t].pid # 0 /\ pc' # "ub" =>
         /\ childs'[t] = childs[t]
         /\ \A i \in DOMAIN launched' \ DOMAIN launched : launched'[i].slot # t]_vars

\* the read end of the pipe of the last child launched in slot t is closed
PipeClosed(t) ==
  \E i \in DOMAIN launched :
    /\ launched[i].slot = t
    /\ \A j \in DOMAIN launched : launched[j].slot = t => j <= i
    /\ ~pipes[launched[i].pipe].rd_open

\* C5: a slot's pid is 0 when the slot is free: once the Result of its
\* child has been queued and its pipe has reached EOF and been closed, the
\* recorded pid is 0 again by the end of the iteration.
C5_PidClearedWhenFree ==
  \A t \in Slots :
    pc = "wait" /\ LaunchesFor(t) = 1
      /\ FramesOf(ltx_msg_result, t) # {} /\ PipeClosed(t)
      => Childs(t).pid = 0

\* the texts of the Log frames of slot t, concatenated in queue order
RECURSIVE LogText_(_, _)
LogText_(t, n) ==
  IF n = 0 THEN <<>>
  ELSE LogText_(t, n - 1) \o
       (IF qframes[n].type = ltx_msg_log /\ qframes[n].slot = t
        THEN qframes[n].text ELSE <<>>)

\* the bytes child p has written that are no longer in its pipe
Consumed(p) ==
  [k \in 1..(procs[p].wrote - Len(pipes[procs[p].pipe].buf)) |-> ChildByte(p, k)]

\* C8: for a slot that held a single child, the Log texts of the slot in
\* queue order are the bytes read from the child's pipe in read order, and
\* each Log frame carries between 1 and LogChunk bytes.
C8_LogOrder ==
  /\ \A i \in DOMAIN launched :
       LaunchesFor(launched[i].slot) = 1 =>
         LogText_(launched[i].slot, Len(qframes)) = Consumed(launched[i].pid)
  /\ \A n \in DOMAIN qframes :
       qframes[n].type = ltx_msg_log =>
         Len(qframes[n].text) >= 1 /\ Len(qframes[n].text) <= LogChunk

\* a slot that held one child has two Log frames queued
C8_Witness ==
  \E t \in Slots :
    LaunchesFor(t) = 1 /\ Cardinality(FramesOf(ltx_msg_log, t)) >= 2

(***************************************************************************)
(* Properties: the input stream (under SpecIn)                             *)
(***************************************************************************)
\* the whole stream of the scheduler: read, in the pipe, and still to write
Stream == rx \o stdin_q \o sched_todo

\* the messages of a stream of whole messages
RECURSIVE Msgs(_)
Msgs(s) ==
  IF s = <<>> THEN <<>>
  ELSE <<SubSeq(s, 1, FirstMsgLen(s))>>
         \o Msgs(SubSeq(s, FirstMsgLen(s) + 1, Len(s)))

\* the length of the first n messages of ms
RECURSIVE EndOf(_, _)
EndOf(ms, n) == IF n = 0 THEN 0 ELSE EndOf(ms, n - 1) + Len(ms[n])

\* the number of messages of the stream that have been read whole
Received ==
  LET ms == Msgs(Stream)
  IN  Cardinality({n \in DOMAIN ms : EndOf(ms, n) <= Len(rx)})

\* the bytes read that belong to a message not yet read whole
TailLen == Len(rx) - EndOf(Msgs(Stream), Received)

\* the frame types a message is answered with
Answer(m) ==
  CASE m[2] = ltx_msg_ping -> <<ltx_msg_ping, ltx_msg_pong>>
    [] m[2] = ltx_msg_exec -> <<ltx_msg_exec>>
    [] m[2] = ltx_msg_get_file -> <<ltx_msg_get_file, ltx_msg_data>>

RECURSIVE Answers(_, _)
Answers(ms, n) ==
  IF n = 0 THEN <<>> ELSE Answers(ms, n - 1) \o Answer(ms[n])

FrameTypes == [i \in DOMAIN qframes |-> qframes[i].type]

PingsReceived ==
  LET ms == Msgs(Stream)
  IN  Cardinality({n \in 1..Received : ms[n][2] = ltx_msg_ping})

PongFrames == {i \in DOMAIN qframes : qframes[i].type = ltx_msg_pong}

\* C6: every Ping read is answered by a ping frame immediately followed by
\* a pong frame, the pong timestamps never decrease, and between two
\* passes there are as many ping frames as Pings read.
C6_PingPong ==
  /\ \A i \in DOMAIN qframes :
       qframes[i].type = ltx_msg_ping =>
         i + 1 \in DOMAIN qframes /\ qframes[i + 1].type = ltx_msg_pong
  /\ \A i \in PongFrames : i > 1 /\ qframes[i - 1].type = ltx_msg_ping
  /\ \A i, j \in PongFrames : i < j => U64Leq(qframes[i].t, qframes[j].t)
  /\ pc \in {"wait", "exited"} => Cardinality(PongFrames) = PingsReceived

\* C9: a valid stream is answered the same however it is cut into reads:
\* LTX never fails on it, and between two passes the frames queued are the
\* answers to the messages read whole so far.
C9_SplitIndependent ==
  /\ exit_code # 1
  /\ pc = "wait" => FrameTypes = Answers(Msgs(Stream), Received)

\* C10: between two passes in_buf.used is the number of bytes read of the
\* trailing incomplete message, and the live region holds these bytes.
C10_Residue ==
  pc = "wait" =>
    /\ in_buf.used = TailLen
    /\ in_buf.off + in_buf.used <= BUFSIZ
    /\ \A i \in 0..(TailLen - 1) :
         in_buf.data[in_buf.off + i] = rx[Len(rx) - TailLen + i + 1]

(***************************************************************************)
(* Properties: the output stream (under SpecOut)                           *)
(***************************************************************************)
\* the bytes of a queued frame, from its history record
EncFr(fr) ==
  ltx_write_msg(fr.type,
    CASE fr.type = ltx_msg_ping -> <<>>
      [] fr.type = ltx_msg_pong -> <<LTX_NUMBER(fr.t)>>
      [] fr.type = ltx_msg_exec ->
           <<LTX_NUMBER(U64(fr.slot)), LTX_STR(Len(fr.text), fr.text)>>
      [] fr.type = ltx_msg_log ->
           <<LTX_NUMBER(U64(fr.slot)), LTX_NUMBER(fr.t),
             LTX_STR(Len(fr.text), fr.text)>>
      [] fr.type = ltx_msg_result ->
           <<LTX_NUMBER(U64(fr.slot)), LTX_NUMBER(fr.t),
             LTX_NUMBER(U64(fr.code)), LTX_NUMBER(U64(fr.status))>>
      [] fr.type = ltx_msg_get_file -> <<LTX_STR(Len(fr.text), fr.text)>>
      [] fr.type = ltx_msg_data -> <<LTX_BIN(fr.code)>>)

\* the bytes of the first n queued frames
RECURSIVE Queued(_)
Queued(n) == IF n = 0 THEN <<>> ELSE Queued(n - 1) \o EncFr(qframes[n])

\* the bytes of stdout[1..n] that came from out_buf
RECURSIVE FromQueue(_)
FromQueue(n) ==
  IF n = 0 THEN <<>>
  ELSE FromQueue(n - 1) \o (IF stdout[n][1] = "q" THEN <<stdout[n][2]>> ELSE <<>>)

FrameEnds == {Len(Queued(n)) : n \in 0..Len(qframes)}

\* C7: the bytes written from the queue, followed by those still queued,
\* are the queued frames in order, and a frame ltx_log writes itself never
\* starts inside a queued frame that is only partly written.
C7_WholeFrames ==
  /\ FromQueue(Len(stdout)) \o out_buf = Queued(Len(qframes))
  /\ \A i \in DOMAIN stdout :
       stdout[i][1] = "d" => Len(FromQueue(i)) \in FrameEnds

(***************************************************************************)
(* Properties: the buffers and the blocked output (under SpecBlk, SpecOut) *)
(***************************************************************************)
\* C11: in every state both buffers hold start + used <= BUFSIZ (out_buf's
\* start is 0 between two drains).
C11_BufferBounds ==
  /\ in_buf.off + in_buf.used <= BUFSIZ
  /\ Len(out_buf) <= BUFSIZ

\* C12: a step that appends to out_buf, or reads into in_buf, more than the
\* buffer has room for ends in exit(1).
C12_OverflowFatal ==
  [][(Len(out_buf') > BUFSIZ \/ in_buf'.off + in_buf'.used > BUFSIZ
        \/ (rx' # rx /\ ~(ltx_buf_avail(in_buf) > 0)))
       => pc' = "exited" /\ exit_code' = 1]_vars

\* C13: while out_fd_blocked is set no byte is written to stdout.
C13_NoWriteWhileBlocked ==
  [][out_fd_blocked = 1 => stdout' = stdout]_vars

\* C15: when LTX exits after the hangup of its input, out_buf is empty.
C15_DrainedAtExit ==
  pc = "exited" /\ exit_code = 0 => out_buf = <<>>

(***************************************************************************)
(* Properties: termination (under Spec)                                    *)
(***************************************************************************)
\* a step of the parent
ProgStep ==
  \/ EpollWait \/ EvIo \/ EvSignal \/ EvChild \/ AfterEvents \/ Exit
  \/ MsgsOut \/ MsgPing \/ MsgExec \/ MsgGetFile \/ MsgBad

\* C14: LTX exits with 0 or 1 only, with 0 only after the hangup of its
\* input, and once the input has hung up it is never stopped in a system
\* call: it always has a step to take until it has exited.
C14_ExitCodes ==
  /\ exit_code \in {-1, 0, 1}
  /\ pc = "exited" <=> exit_code # -1
  /\ exit_code = 0 => in_closed
  /\ in_closed /\ Running => ENABLED ProgStep

(***************************************************************************)
(* Properties: protocol violations (under SpecBad)                         *)
(***************************************************************************)
\* the bytes of the message the pass is at
MsgByte(k) == in_buf.data[outer_cur.ptr + k]

AtMsg == pc = "msgs" /\ outer_cur.left > 1

Aborted == pc = "exited" /\ exit_code = 1

\* C16: when the stream LTX has read starts with a byte that is no fixarray
\* tag, LTX does not exit with 0: it ends with exit status 1.
C16_NotFixarrayFatal ==
  pc = "exited" /\ rx # <<>> /\ rx[1] \notin 144..159 => exit_code = 1

\* C17: a message of type Pong, Env, Log, Result, Set-file, Data or above 8
\* ends LTX with exit status 1 and queues no frame.
C17_ReservedTypesFatal ==
  [][AtMsg /\ MsgByte(1) \notin {0, 3, 6}
       => pc' = "exited" /\ exit_code' = 1
          /\ qframes' = qframes /\ launched' = launched]_vars

\* LTX has died on a message of a type above Data
C17_Witness == Aborted /\ outer_cur.left > 1 /\ MsgByte(1) = 9

\* C18: a Ping of array length other than 1, a Get-file of length other
\* than 2 and an Exec of length below 3 end LTX with exit status 1, no child
\* launched and no file opened; an Exec of length above 3 launches no child
\* and ends LTX with exit status 1 once its path has been read.
C18_ArityFatal ==
  [][AtMsg /\ FixarrayBits(MsgByte(0)) =>
       /\ (\/ MsgByte(1) = 0 /\ MsgByte(0) # 145
           \/ MsgByte(1) = 6 /\ MsgByte(0) # 146
           \/ MsgByte(1) = 3 /\ MsgByte(0) \in 144..146)
          => pc' = "exited" /\ exit_code' = 1
             /\ launched' = launched /\ fdtab' = fdtab
       /\ MsgByte(1) = 3 /\ MsgByte(0) \notin 144..147
          => /\ launched' = launched /\ fdtab' = fdtab
             /\ pc' = "exited" => exit_code' = 1
             /\ qframes' # qframes => pc' = "exited"
             /\ MsgByte(2) < 127 /\ MsgByte(3) \in 160..191
                  /\ outer_cur.left >= 4 + (MsgByte(3) - 160)
                => pc' = "exited"]_vars

\* LTX has died on a Ping of array length 0
C18_Witness ==
  Aborted /\ outer_cur.left > 1 /\ MsgByte(0) = 144 /\ MsgByte(1) = 0

\* C19: an Exec whose slot byte is 127 or more ends LTX with exit status 1
\* and launches no child; the child table is used at indexes 0..126 only,
\* and the slot of every Log and Result frame is in 0..126.
C19_SlotRange ==
  /\ [](/\ DOMAIN childs \subseteq 0..126
        /\ DOMAIN child_pids \subseteq 0..126
        /\ \A i \in DOMAIN qframes :
             qframes[i].type \in {ltx_msg_log, ltx_msg_result}
               => qframes[i].slot \in 0..126)
  /\ [][AtMsg /\ FixarrayBits(MsgByte(0)) /\ MsgByte(1) = 3
          /\ MsgByte(0) \notin 144..146 /\ MsgByte(2) >= 127
          => pc' = "exited" /\ exit_code' = 1 /\ launched' = launched]_vars

\* LTX has died on an Exec for slot 127 after the Result of slot 126
C19_Witness ==
  /\ Aborted /\ outer_cur.left > 2 /\ MsgByte(1) = 3 /\ MsgByte(2) = 127
  /\ \E i \in DOMAIN qframes :
       qframes[i].type = ltx_msg_result /\ qframes[i].slot = 126

\* C20: an Exec or a Get-file whose path is a str8 of fewer than 32 bytes
\* is not accepted: no frame is queued for it, no child launched, no file
\* opened.
C20_NonShortestRejected ==
  [][AtMsg /\ (\/ MsgByte(1) = 3 /\ MsgByte(3) = 217 /\ MsgByte(4) < 32
                  /\ outer_cur.left >= 5 + MsgByte(4)
               \/ MsgByte(1) = 6 /\ MsgByte(2) = 217 /\ MsgByte(3) < 32
                  /\ outer_cur.left >= 4 + MsgByte(3))
       => qframes' = qframes /\ launched' = launched /\ fdtab' = fdtab]_vars

\* C21: an Exec whose path is not tagged fixstr or str8 (a str16, a str32, or
\* no string at all) ends LTX with exit status 1: no acknowledgement is
\* queued for it and no child is launched.
C21_ExecPathEncoding ==
  [][AtMsg /\ FixarrayBits(MsgByte(0)) /\ MsgByte(1) = 3
       /\ MsgByte(0) \notin 144..146 /\ outer_cur.left >= 4
       /\ MsgByte(2) < 127 /\ MsgByte(3) \notin (160..191 \cup {217})
       => pc' = "exited" /\ exit_code' = 1
          /\ qframes' = qframes /\ launched' = launched]_vars

(***************************************************************************)
(* Properties: the codec (under SpecCodec)                                 *)
(***************************************************************************)
\* the shortest-form header of MessagePack for a value of each family: the
\* tag, then the low l bytes of n, most significant first
RefNumber(kind, n) ==
  LET lt32 == n[1] = 0 /\ n[2] = 0
      lt16 == lt32 /\ n[3] = 0
      lt(k) == lt16 /\ n[4] < k
      be(l) ==
        CASE l = 1 -> <<n[4] % 256>>
          [] l = 2 -> <<n[4] \div 256, n[4] % 256>>
          [] l = 4 -> <<n[3] \div 256, n[3] % 256, n[4] \div 256, n[4] % 256>>
          [] l = 8 -> <<n[1] \div 256, n[1] % 256, n[2] \div 256, n[2] % 256,
                        n[3] \div 256, n[3] % 256, n[4] \div 256, n[4] % 256>>
  IN  CASE kind = ltx_array ->
             IF lt(16) THEN <<144 + n[4]>> ELSE <<220>> \o be(2)
        [] kind = ltx_number ->
             IF lt(128) THEN <<n[4]>>
             ELSE IF lt(256) THEN <<204>> \o be(1)
             ELSE IF lt16 THEN <<205>> \o be(2)
             ELSE IF lt32 THEN <<206>> \o be(4)
             ELSE <<207>> \o be(8)
        [] kind = ltx_str ->
             IF lt(32) THEN <<160 + n[4]>>
             ELSE IF lt(256) THEN <<217>> \o be(1)
             ELSE IF lt16 THEN <<218>> \o be(2)
             ELSE <<219>> \o be(4)
        [] kind = ltx_bin ->
             IF lt(256) THEN <<196>> \o be(1)
             ELSE <<198>> \o be(4)

\* C22: for every array length, unsigned integer, string length and binary
\* length, ltx_write_number writes the tag and the big-endian bytes of the
\* shortest form of the value's own family.
C22_ShortestForm ==
  \A i \in DOMAIN qframes :
    qframes[i].type \in {ltx_array, ltx_number, ltx_str, ltx_bin}
      => out_buf = RefNumber(qframes[i].type, qframes[i].t)

(***************************************************************************)
(* Properties: Get-file (under SpecIn, SpecOut)                            *)
(***************************************************************************)
\* the pass is at a whole Get-file whose path, a fixstr, names a file
AtGetFile ==
  /\ AtMsg /\ MsgByte(0) = 146 /\ MsgByte(1) = 6 /\ MsgByte(2) \in 160..191
  /\ outer_cur.left >= 3 + (MsgByte(2) - 160)
  /\ [i \in 1..(MsgByte(2) - 160) |-> MsgByte(2 + i)] \in DOMAIN Files

\* the step is one of the pass over the messages
PassStep == <<pc, outer_cur>>' # <<pc, outer_cur>>

\* the file the Get-file names
FileAsked == Files[[i \in 1..(MsgByte(2) - 160) |-> MsgByte(2 + i)]]

\* the bytes of a part of the output stream
Bytes(s) == [i \in 1..Len(s) |-> s[i][2]]

\* C23: a Get-file on a readable file of L < 256 bytes ends the output
\* stream with the Data frame 92 08 c4 L, a bin8 header declaring L bytes,
\* followed by the L bytes of the file.
C23_DataFrame ==
  [][AtGetFile /\ PassStep /\ Len(FileAsked) <= FileMax =>
       LET tail == <<146, 8, 196, Len(FileAsked)>> \o FileAsked
           n == Len(stdout') - Len(tail)
       IN  /\ n >= Len(stdout)
           /\ Bytes(SubSeq(stdout', n + 1, Len(stdout'))) = tail]_vars

C25_SizeLimit ==
  [][AtGetFile /\ PassStep =>
       LET new == SubSeq(stdout', Len(stdout) + 1, Len(stdout'))
           sent == {i \in DOMAIN new : new[i][1] = "f"}
       IN  IF Len(FileAsked) > FileMax
           THEN pc' = "exited" /\ exit_code' = 1 /\ sent = {}
           ELSE /\ pc' # "exited"
                /\ Cardinality(sent) = Len(FileAsked)
                /\ \A i \in sent :
                     new[i][2] = FileAsked[i - (Len(new) - Len(FileAsked))]]_vars

(***************************************************************************)
(* Properties: the Exec acknowledgement (under SpecIn)                     *)
(***************************************************************************)
\* C26: the step that launches a child for an Exec whose path is a fixstr
\* or a str8 appends to the output exactly the frame [3, slot, path] with
\* the slot and the path bytes of the request, and launches the child in
\* that slot; every Log and Result frame of a slot has an acknowledgement
\* for the slot queued before it; a step at an Exec that is not whole yet
\* queues nothing and launches nothing.
C26_ExecAck ==
  /\ [](\A t \in Slots :
          \A j \in FramesOf(ltx_msg_log, t) \cup FramesOf(ltx_msg_result, t) :
            \E i \in FramesOf(ltx_msg_exec, t) : i < j)
  /\ [][launched' # launched /\ MsgByte(3) \in (160..191 \cup {217}) =>
          LET n == IF MsgByte(3) = 217 THEN MsgByte(4) ELSE MsgByte(3) - 160
              off == IF MsgByte(3) = 217 THEN 4 ELSE 3
              path == [i \in 1..n |-> MsgByte(off + i)]
              hdr == IF n < 32 THEN <<160 + n>> ELSE <<217, n>>
              ack == <<147, 3, MsgByte(2)>> \o hdr \o path
          IN  /\ Bytes(stdout') \o out_buf' = Bytes(stdout) \o out_buf \o ack
              /\ Len(launched') = Len(launched) + 1
              /\ launched'[Len(launched')].slot = MsgByte(2)
              /\ Len(qframes') = Len(qframes) + 1]_vars
  /\ [][AtMsg /\ PassStep /\ FixarrayBits(MsgByte(0)) /\ MsgByte(1) = 3
          /\ (\/ outer_cur.left < 4
              \/ MsgByte(3) \in 160..191
                   /\ outer_cur.left < 4 + (MsgByte(3) - 160)
              \/ MsgByte(3) = 217
                   /\ (outer_cur.left < 5 \/ outer_cur.left < 5 + MsgByte(4)))
          => qframes' = qframes /\ launched' = launched]_vars

(***************************************************************************)
(* Properties: the children before exec (under SpecBad)                    *)
(***************************************************************************)
\* C27: no byte of the output stream is written by a child: a step of a
\* child, also one that fails in dup2 or execv and logs the failure,
\* leaves the stream as it is.
C27_ChildNeverFrames ==
  /\ [](\A i \in DOMAIN stdout : stdout[i][1] # "c")
  /\ [][Len(procs') = Len(procs) /\ procs' # procs => stdout' = stdout]_vars

\* a child has failed in execv, and the parent has framed its diagnostic
C27_Witness ==
  \E i \in DOMAIN qframes :
    /\ qframes[i].type = ltx_msg_log /\ qframes[i].text = LogText(1189)
    /\ \E p \in DOMAIN procs : ~procs[p].alive /\ procs[p].wrote = 0

(***************************************************************************)
(* Properties: the Log frames of LTX itself (under SpecOut)                *)
(***************************************************************************)
\* C28: the output stream starts with the whole Log frame of main's first
\* LTX_LOG, its slot nil; and when LTX has exited with status 0 the stream
\* ends with the whole Log frame of main's last LTX_LOG, its slot nil.
C28_FirstAndLastLog ==
  /\ LET first == ltx_write_msg(ltx_msg_log,
                     <<LTX_NIL, LTX_NUMBER(ClockVals[1]),
                       LTX_STR(Len(LogText(1414)), LogText(1414))>>)
     IN  /\ Len(stdout) >= Len(first)
         /\ SubSeq(stdout, 1, Len(first)) = Tag("d", first)
         /\ first[2] = ltx_msg_log /\ first[3] = msgp_nil
  /\ pc = "exited" /\ exit_code = 0 =>
       LET last == LogFrame(1418)
           n == Len(stdout) - Len(last)
       IN  /\ n >= 0
           /\ SubSeq(stdout, n + 1, Len(stdout)) = Tag("d", last)
           /\ last[2] = ltx_msg_log /\ last[3] = msgp_nil

(***************************************************************************)
(* Properties: the bytes of the reply to a Ping (under SpecIn)             *)
(***************************************************************************)
\* the pass is at a Ping and the step answers it
PingStep ==
  AtMsg /\ MsgByte(0) = 145 /\ MsgByte(1) = 0 /\ PassStep /\ pc' = "msgs"

\* the bytes the step appends to the output, written or queued
Appended ==
  SubSeq(Bytes(stdout') \o out_buf',
         Len(stdout) + Len(out_buf) + 1, Len(stdout') + Len(out_buf'))

\* the eight bytes of a uint64_t, most significant first
BigEndian8(n) ==
  <<n[1] \div 256, n[1] % 256, n[2] \div 256, n[2] % 256,
    n[3] \div 256, n[3] % 256, n[4] \div 256, n[4] % 256>>

\* C29 as stated: the reply to a Ping is 91 00, then 92 01 cf and the eight
\* big-endian bytes of the timestamp, whatever the timestamp.
C29_PongAlwaysUint64 ==
  [][PingStep =>
       Appended = <<145, 0, 146, 1, 207>> \o BigEndian8(ltx_gettime)]_vars

\* C29, amended: the reply to a Ping is 91 00, then 92 01 and the timestamp
\* in the shortest unsigned form, which is cf and the eight big-endian
\* bytes when the timestamp is 2^32 or more.
C29_PongShortestForm ==
  [][PingStep =>
       /\ Appended = <<145, 0, 146, 1>> \o RefNumber(ltx_number, ltx_gettime)
       /\ ltx_gettime[1] # 0 \/ ltx_gettime[2] # 0 =>
            Appended = <<145, 0, 146, 1, 207>> \o BigEndian8(ltx_gettime)]_vars

\* a pong with a timestamp of 2^32 or more and one with a smaller, wider
\* than a byte, have been queued
C29_Witness ==
  /\ \E i \in DOMAIN qframes :
       qframes[i].type = ltx_msg_pong /\ qframes[i].t = ClockVals[4]
  /\ \E i \in DOMAIN qframes :
       qframes[i].type = ltx_msg_pong /\ qframes[i].t = ClockVals[3]

(***************************************************************************)
(* Properties: the round trip of a string (under SpecCodec)                *)
(***************************************************************************)
\* C30: once the string object of n bytes whose header ltx_write_number
\* wrote has been read back, ltx_read_str has returned a string of n bytes,
\* the bytes written, and the cursor has moved over the header and the n
\* bytes, to the end of what was written.
C30_StrRoundTrip ==
  \A i \in DOMAIN qframes :
    qframes[i].type = ltx_str /\ outer_cur # [ptr |-> 0, left |-> 0] =>
      LET n == qframes[i].t[3] * 65536 + qframes[i].t[4]
          data == StrData(n)
          r == ltx_read_str(data, [ptr |-> 0, left |-> Cardinality(DOMAIN data)])
      IN  /\ r.ok /\ ~r.ub /\ ~r.fatal
          /\ r.len = n
          /\ outer_cur = r.cur
          /\ outer_cur.ptr = Len(out_buf) + n /\ outer_cur.left = 0
          /\ r.str = Payload(n)

(***************************************************************************)
(* Properties: the output of a running child (under SpecLive)              *)
(***************************************************************************)
\* C31: the bytes a running child has written to its pipe are read while
\* the child runs: from a state where child p is alive with bytes in its
\* pipe, LTX comes to read from the pipe, unless the child exits or LTX
\* stops first.
C31_ReadWhileRunning ==
  \A p \in 1..2 :
    (p \in DOMAIN procs /\ procs[p].alive /\ pipes[procs[p].pipe].buf # <<>>)
      ~> (\/ ~Running
          \/ /\ p \in DOMAIN procs
             /\ \/ ~procs[p].alive
                \/ Len(pipes[procs[p].pipe].buf) < procs[p].wrote)

(***************************************************************************)
(* Properties: the cursor at a truncated message (under SpecIn)            *)
(***************************************************************************)
\* C32: no reader is applied to a cursor with fewer bytes left than it
\* takes: a pass at an Exec or a Get-file of which only the array tag and
\* the type byte have been received ends with the incomplete outcome, the
\* two bytes kept for the next pass, LTX running, nothing queued, launched
\* or opened, and no byte outside the buffer read.
C32_NoUnderflow ==
  [][AtMsg /\ outer_cur.left = 2
       /\ (\/ MsgByte(0) = 147 /\ MsgByte(1) = 3
           \/ MsgByte(0) = 146 /\ MsgByte(1) = 6)
       => /\ pc' = "wait" /\ exit_code' = -1
          /\ in_buf'.used = 2
          /\ in_buf'.data[in_buf'.off] = MsgByte(0)
          /\ in_buf'.data[in_buf'.off + 1] = MsgByte(1)
          /\ qframes' = qframes /\ launched' = launched /\ fdtab' = fdtab]_vars

(***************************************************************************)
(* Properties: the compaction of in_buf (under SpecIn)                     *)
(***************************************************************************)
\* C33: between two passes in_buf starts at offset 0, so the room for the
\* next read is BUFSIZ less the residue, all of BUFSIZ when the pass has
\* consumed every byte.
C33_Compacted ==
  pc = "wait" =>
    /\ in_buf.off = 0
    /\ ltx_buf_avail(in_buf) = BUFSIZ - in_buf.used
    /\ in_buf.used = 0 => ltx_buf_avail(in_buf) = BUFSIZ

(***************************************************************************)
(* Properties: the incomplete outcome (under SpecIn)                       *)
(***************************************************************************)
\* C34: a pass that stops at a message for which the decoder reports
\* incomplete (an Exec cut after its slot or inside its path, a Get-file
\* cut inside its path) has no effect of that message: LTX goes back to
\* waiting, nothing is appended to the output, no pipe is made, no child
\* forked, no file opened, and the child table is as it was.  The same
\* holds of every pass that stops before the end of its input.
C34_IncompleteNoEffect ==
  [][AtMsg =>
       LET cut(tag) ==
             \/ outer_cur.left = tag
             \/ /\ outer_cur.left > tag
                /\ \/ /\ MsgByte(tag) \in 160..191
                      /\ outer_cur.left < tag + 1 + (MsgByte(tag) - 160)
                   \/ /\ MsgByte(tag) = 217
                      /\ \/ outer_cur.left < tag + 2
                         \/ outer_cur.left < tag + 2 + MsgByte(tag + 1)
           incomplete ==
             \/ /\ MsgByte(0) = 147 /\ MsgByte(1) = 3 /\ outer_cur.left >= 3
                /\ MsgByte(2) < 127 /\ cut(3)
             \/ /\ MsgByte(0) = 146 /\ MsgByte(1) = 6 /\ outer_cur.left > 2
                /\ cut(2)
           stopped == pc' = "wait"
           noeffect ==
             /\ Bytes(stdout') \o out_buf' = Bytes(stdout) \o out_buf
             /\ qframes' = qframes /\ launched' = launched /\ fdtab' = fdtab
             /\ pipes' = pipes /\ procs' = procs
             /\ childs' = childs /\ child_pids' = child_pids
             /\ exit_code' = exit_code
       IN  /\ incomplete => stopped /\ noeffect
           /\ stopped => noeffect]_vars

\* LTX is waiting again after a pass over an Exec cut inside its path
C34_Witness ==
  /\ pc = "wait" /\ rx = <<147, 3, 0, 161>> /\ in_buf.used = 4
  /\ qframes = <<>>

(***************************************************************************)
(* Properties: the slot of a Result (under Spec)                           *)
(***************************************************************************)
\* C35: the step that handles the exit record of a child LTX launched
\* queues a Result whose slot is the slot of the Exec that launched that
\* child, and never fails with 'PID not found'.
C35_ResultAttribution ==
  [][pc = "events" /\ sigq # <<>> =>
       LET new == SubSeq(stdout', Len(stdout) + 1, Len(stdout'))
       IN  /\ ~(pc' = "exited" /\ Bytes(new) = LogFrame(1335))
           /\ sigq' = <<>> =>
                /\ Len(qframes') = Len(qframes) + 1
                /\ qframes'[Len(qframes')].type = ltx_msg_result
                /\ \E k \in DOMAIN launched :
                     /\ launched[k].pid = sigq[1].ssi_pid
                     /\ launched[k].slot = qframes'[Len(qframes')].slot]_vars

(***************************************************************************)
(* Properties: the output is written in the end (under SpecOutLive)        *)
(***************************************************************************)
\* C36: while LTX runs with out_fd_blocked set, the stdout pipe is full, or
\* a writable notification is pending or is among the events being
\* processed: no wake-up is lost, also after a Get-file; and with a
\* scheduler that keeps reading, what is in out_buf is written in the end,
\* unless LTX stops first.
C36_OutputLiveness ==
  /\ [](Running /\ out_fd_blocked = 1 =>
          \/ out_free = 0
          \/ out_edge
          \/ \E e \in batch : e.src = "out")
  /\ (out_buf # <<>>) ~> (out_buf = <<>> \/ ~Running)

\* after a Get-file the output is blocked with bytes queued, the scheduler
\* has made room and the notification is pending
C36_Witness ==
  /\ out_fd_blocked = 1 /\ out_buf # <<>> /\ out_free > 0 /\ out_edge
  /\ \E i \in DOMAIN stdout : stdout[i][1] = "f"

(***************************************************************************)
(* Properties: the input at the hangup (under SpecHup)                     *)
(***************************************************************************)
\* C37: when LTX has exited with status 0, no byte the scheduler wrote is
\* left unread on stdin, and every message of the stream has been
\* processed: each Ping has its ping frame and each Exec its child.
C37_AllProcessed ==
  pc = "exited" /\ exit_code = 0 =>
    LET ms == Msgs(Stream)
        of(type) == Cardinality({n \in DOMAIN ms : ms[n][2] = type})
    IN  /\ stdin_q = <<>>
        /\ Cardinality({i \in DOMAIN qframes : qframes[i].type = ltx_msg_ping})
             >= of(ltx_msg_ping)
        /\ Len(launched) >= of(ltx_msg_exec)

(***************************************************************************)
(* Properties: the descriptors LTX holds (under SpecIn)                    *)
(***************************************************************************)
\* C38: while LTX runs, between two messages it holds no descriptor on a
\* file it has served, and the descriptors it holds above epoll's are the
\* read ends of the child pipes that are still open, one for each.
C38_NoFdLeak ==
  Running =>
    /\ \A f \in DOMAIN fdtab : fdtab[f] # 0
    /\ Cardinality(DOMAIN fdtab)
         <= Cardinality({q \in DOMAIN pipes : pipes[q].rd_open})

=============================================================================
